---- MODULE Spec2Model ----
(***************************************************************************)
(* vcctl "pod list" and "jobflow list": the list commands, their table     *)
(* printers and the pod status derivation (printPod).                      *)
(*                                                                         *)
(* Sources:                                                                *)
(*   src/pkg/cli/pod/pod_test.go:248-637   package pod (ListPods with the  *)
(*                                         queue flag, PrintPods, printPod)*)
(*   src/unnamed/part_000                  package pod, the revision that  *)
(*                                         filters the response on the     *)
(*                                         client (filterFunc, filterPods);*)
(*                                         its definitions carry the       *)
(*                                         suffix _part000 here            *)
(*   src/pkg/cli/jobflow/list.go:1-120     package jobflow                 *)
(*   src/pkg/cli/jobflow/list.go:122-391   the pod package's test and its  *)
(*                                         test server                     *)
(*                                                                         *)
(* Strings are TLA+ strings; Len and \o work on them as in Go's len and +. *)
(* Times are seconds; 0 is the zero time (metav1.Time{}.IsZero()).         *)
(***************************************************************************)
EXTENDS Integers, Sequences, FiniteSets, TLC

VARIABLES
    listPodFlags,      \* the process-wide flags of "pod list"
    listJobFlowFlags,  \* the process-wide flags of "jobflow list"
    server,            \* the API server: the list it answers a List call with
    now,               \* the wall clock when the command runs (time.Since)
    cmd,               \* the command that ran last ("none" before any)
    fault,             \* the call of that command that failed, and its error
    err,               \* the error that command returned ("nil": success)
    request,           \* the List calls that command issued, in order
    rendered,          \* the items that command had to render
    formatStr,         \* the column widths of the printer's format string
    attempts,          \* the line writes the printer attempted on its writer
    stdout,            \* the lines that command left on standard output
    pod,               \* the pod handed to printPod (pure-function runs)
    info,              \* the row printPod returned for it
    pc                 \* "input" until printPod has been applied, then "done"

vars == <<listPodFlags, listJobFlowFlags, server, now, cmd, fault, err, request,
          rendered, formatStr, attempts, stdout, pod, info, pc>>

-----------------------------------------------------------------------------
(* Bounds of the model                                                     *)

MaxItems == 3            \* items the server's list holds at most
MaxInitContainers == 2   \* declared init containers of a generated pod
MaxInitStatuses == 1     \* init container statuses of a generated pod
MaxStatuses == 1         \* regular container statuses of a generated pod

-----------------------------------------------------------------------------
(* Small helpers                                                           *)

SeqsUpTo(S, n) == UNION {[1..k -> S] : k \in 0..n}

Max(a, b) == IF a > b THEN a ELSE b

\* fmt's %d
Itoa(n) == ToString(n)

RECURSIVE Spaces(_)
\* n spaces
Spaces(n) ==
    IF n <= 0 THEN ""
    ELSE IF n % 2 = 1 THEN " " \o Spaces(n - 1)
    ELSE LET half == Spaces(n \div 2) IN half \o half

\* fmt's %-Ns: left-justified, padded with spaces to N, never truncated
PadRight(s, n) == s \o Spaces(n - Len(s))

\* a Go map lookup: the zero value "" for a missing key
Lookup(m, k) == IF k \in DOMAIN m THEN m[k] ELSE ""

JobNameKey == "volcano.sh/job-name"
QueueNameKey == "volcano.sh/queue-name"

-----------------------------------------------------------------------------
(* Time                                                                    *)

\* duration.HumanDuration on whole seconds
HumanDuration(d) ==
    LET seconds == d
        minutes == d \div 60
        hours == d \div 3600
    IN  IF seconds < -1 THEN "<invalid>"
        ELSE IF seconds < 0 THEN "0s"
        ELSE IF seconds < 120 THEN Itoa(seconds) \o "s"
        ELSE IF minutes < 10 THEN
            IF seconds % 60 = 0 THEN Itoa(minutes) \o "m"
            ELSE Itoa(minutes) \o "m" \o Itoa(seconds % 60) \o "s"
        ELSE IF minutes < 180 THEN Itoa(minutes) \o "m"
        ELSE IF hours < 8 THEN
            IF minutes % 60 = 0 THEN Itoa(hours) \o "h"
            ELSE Itoa(hours) \o "h" \o Itoa(minutes % 60) \o "m"
        ELSE IF hours < 48 THEN Itoa(hours) \o "h"
        ELSE IF hours < 192 THEN
            IF hours % 24 = 0 THEN Itoa(hours \div 24) \o "d"
            ELSE Itoa(hours \div 24) \o "d" \o Itoa(hours % 24) \o "h"
        ELSE IF hours < 17520 THEN Itoa(hours \div 24) \o "d"
        ELSE IF hours < 70080 THEN
            IF (hours \div 24) % 365 = 0 THEN Itoa(hours \div 8760) \o "y"
            ELSE Itoa(hours \div 8760) \o "y" \o Itoa((hours \div 24) % 365) \o "d"
        ELSE Itoa(hours \div 8760) \o "y"

\* translateTimestampSince, with the clock reading t for time.Now()
translateTimestampSince(timestamp, t) ==
    IF timestamp = 0 THEN "<unknown>" ELSE HumanDuration(t - timestamp)

\* metav1.Time.Before
Before(t, u) == t < u

-----------------------------------------------------------------------------
(* Pods                                                                    *)

NoWaiting == [set |-> FALSE, Reason |-> ""]
NoTerminated == [set |-> FALSE, ExitCode |-> 0, Signal |-> 0, Reason |-> ""]
NoLastTermination == [set |-> FALSE, FinishedAt |-> 0]

Waiting(reason) == [set |-> TRUE, Reason |-> reason]
Terminated(code, signal, reason) ==
    [set |-> TRUE, ExitCode |-> code, Signal |-> signal, Reason |-> reason]
LastTermination(t) == [set |-> TRUE, FinishedAt |-> t]

\* corev1.ContainerState: at most one member is set
StateNone == [Waiting |-> NoWaiting, Running |-> FALSE, Terminated |-> NoTerminated]
StateWaiting(reason) == [StateNone EXCEPT !.Waiting = Waiting(reason)]
StateRunning == [StateNone EXCEPT !.Running = TRUE]
StateTerminated(code, signal, reason) ==
    [StateNone EXCEPT !.Terminated = Terminated(code, signal, reason)]

\* corev1.ContainerStatus; Started is the *bool: "nil", "true" or "false"
ContainerStatus(name, state, ready, started, restartCount, last) ==
    [Name |-> name, State |-> state, Ready |-> ready, Started |-> started,
     RestartCount |-> restartCount, LastTerminationState |-> last]

\* corev1.Container of an init container; RestartPolicy "" is the nil pointer
InitContainer(name, policy) == [nil |-> FALSE, Name |-> name, RestartPolicy |-> policy]

\* the nil *corev1.Container
NilContainer == [nil |-> TRUE, Name |-> "", RestartPolicy |-> ""]

Condition(type, status, reason) == [Type |-> type, Status |-> status, Reason |-> reason]

\* The pod of the package's tests: one declared container, phase Running,
\* a true Ready condition, no container status.
TestPod(name, namespace, labels, created) ==
    [Name |-> name, Namespace |-> namespace, Labels |-> labels,
     CreationTimestamp |-> created, DeletionTimestamp |-> FALSE,
     Containers |-> <<"my-container">>, InitContainers |-> <<>>,
     Phase |-> "Running", Reason |-> "",
     Conditions |-> <<Condition("Ready", "True", "")>>,
     InitContainerStatuses |-> <<>>, ContainerStatuses |-> <<>>]

-----------------------------------------------------------------------------
(* printPod, src/pkg/cli/pod/pod_test.go:449-598                           *)

\* a readiness test that takes every pod for ready
hasPodReadyCondition_always(conditions) == Len(conditions) >= 0

\* hasPodReadyCondition
hasPodReadyCondition(conditions) ==
    \E i \in 1..Len(conditions) :
        conditions[i].Type = "Ready" /\ conditions[i].Status = "True"

\* a test that takes a container that is not declared for a restartable one
isRestartableInitContainer_nilRestartable(initContainer) ==
    IF initContainer.nil THEN TRUE
    ELSE initContainer.RestartPolicy = "Always"

\* isRestartableInitContainer
isRestartableInitContainer(initContainer) ==
    IF initContainer.nil THEN FALSE
    ELSE IF initContainer.RestartPolicy = "" THEN FALSE
    ELSE initContainer.RestartPolicy = "Always"

\* isPodInitializedConditionTrue: the first Initialized condition decides
isPodInitializedConditionTrue(conditions) ==
    LET idx == {i \in 1..Len(conditions) : conditions[i].Type = "Initialized"}
    IN  IF idx = {} THEN FALSE
        ELSE conditions[CHOOSE i \in idx : \A j \in idx : i <= j].Status = "True"

\* podutil.IsPodPhaseTerminal
IsPodPhaseTerminal(phase) == phase \in {"Failed", "Succeeded"}

\* node.NodeUnreachablePodReason
NodeUnreachablePodReason == "NodeLost"

\* the initContainers map of printPod: the last declared container of a
\* name, nil for a name that is not declared
initContainersLookup(p, name) ==
    LET idx == {i \in 1..Len(p.InitContainers) : p.InitContainers[i].Name = name}
    IN  IF idx = {} THEN NilContainer
        ELSE p.InitContainers[CHOOSE i \in idx : \A j \in idx : j <= i]

\* a totalContainers that leaves the restartable init containers out
totalContainers_declared(p) == Len(p.Containers)

\* totalContainers: the declared containers and the restartable init containers
totalContainers(p) ==
    Len(p.Containers)
    + Cardinality({i \in 1..Len(p.InitContainers) :
                     isRestartableInitContainer(p.InitContainers[i])})

\* a first reason that forgets the phase
initialReason_reasonOnly(p) == p.Reason

\* the reason before any container is looked at: the phase, the status
\* reason when set, SchedulingGated when a PodScheduled condition says so
initialReason(p) ==
    LET r == IF p.Reason # "" THEN p.Reason ELSE p.Phase
    IN  IF \E i \in 1..Len(p.Conditions) :
              /\ p.Conditions[i].Type = "PodScheduled"
              /\ p.Conditions[i].Reason = "SchedulingGated"
        THEN "SchedulingGated" ELSE r

\* restarts += RestartCount; lastRestartDate moves to a later FinishedAt
accountRestart(acc, container) ==
    [acc EXCEPT
        !.restarts = @ + container.RestartCount,
        !.lastRestartDate =
            IF /\ container.LastTerminationState.set
               /\ Before(@, container.LastTerminationState.FinishedAt)
            THEN container.LastTerminationState.FinishedAt ELSE @]

\* an account that takes every init container for a restartable one
accountRestartable_all(acc, container, restartable) ==
    [acc EXCEPT
        !.restartableInitContainerRestarts = @ + container.RestartCount,
        !.lastRestartableInitContainerRestartDate =
            IF /\ container.LastTerminationState.set
               /\ Before(@, container.LastTerminationState.FinishedAt)
            THEN container.LastTerminationState.FinishedAt ELSE @]

\* the same for the restartable init containers' own counters
accountRestartable(acc, container, restartable) ==
    IF ~restartable THEN acc
    ELSE [acc EXCEPT
        !.restartableInitContainerRestarts = @ + container.RestartCount,
        !.lastRestartableInitContainerRestartDate =
            IF /\ container.LastTerminationState.set
               /\ Before(@, container.LastTerminationState.FinishedAt)
            THEN container.LastTerminationState.FinishedAt ELSE @]

\* a test of the waiting reason that takes the placeholder for a reason too
initWaitingReason_any(container) ==
    /\ container.State.Waiting.set
    /\ Len(container.State.Waiting.Reason) > 0

\* the init container waits with a reason other than the placeholder
initWaitingReason(container) ==
    /\ container.State.Waiting.set
    /\ Len(container.State.Waiting.Reason) > 0
    /\ container.State.Waiting.Reason # "PodInitializing"

\* a reason of a terminated init container that ignores signal and exit code
initTerminatedReason_reasonOnly(t) == "Init:" \o t.Reason

\* the reason of a terminated init container
initTerminatedReason(t) ==
    IF Len(t.Reason) = 0
    THEN IF t.Signal # 0 THEN "Init:Signal:" \o Itoa(t.Signal)
         ELSE "Init:ExitCode:" \o Itoa(t.ExitCode)
    ELSE "Init:" \o t.Reason

RECURSIVE initContainerScan(_, _, _)
\* the loop over pod.Status.InitContainerStatuses, from status i on
initContainerScan(p, i, acc) ==
    IF i > Len(p.InitContainerStatuses) THEN acc
    ELSE
        LET container == p.InitContainerStatuses[i]
            restartable ==
                isRestartableInitContainer(initContainersLookup(p, container.Name))
            a == accountRestartable(accountRestart(acc, container), container, restartable)
        IN  IF container.State.Terminated.set /\ container.State.Terminated.ExitCode = 0
            THEN initContainerScan(p, i + 1, a)
            ELSE IF restartable /\ container.Started = "true"
            THEN initContainerScan(p, i + 1,
                    IF container.Ready
                    THEN [a EXCEPT !.readyContainers = @ + 1] ELSE a)
            ELSE IF container.State.Terminated.set
            THEN [a EXCEPT !.reason = initTerminatedReason(container.State.Terminated),
                           !.initializing = TRUE]
            ELSE IF initWaitingReason(container)
            THEN [a EXCEPT !.reason = "Init:" \o container.State.Waiting.Reason,
                           !.initializing = TRUE]
            ELSE [a EXCEPT !.reason = "Init:" \o Itoa(i - 1) \o "/"
                                        \o Itoa(Len(p.InitContainers)),
                           !.initializing = TRUE]

\* an order of visit from the first container status to the last
containerOrder_forward(n) == [k \in 1..n |-> k]

\* the order the regular pass visits n container statuses in: from the
\* last to the first
containerOrder(n) == [k \in 1..n |-> n + 1 - k]

RECURSIVE containerScan(_, _, _)
\* the loop over pod.Status.ContainerStatuses, for the indices still to visit
containerScan(p, order, acc) ==
    IF order = <<>> THEN acc
    ELSE
        LET container == p.ContainerStatuses[Head(order)]
            a == accountRestart(acc, container)
            b == IF container.State.Waiting.set /\ container.State.Waiting.Reason # ""
                 THEN [a EXCEPT !.reason = container.State.Waiting.Reason]
                 ELSE IF /\ container.State.Terminated.set
                         /\ container.State.Terminated.Reason # ""
                 THEN [a EXCEPT !.reason = container.State.Terminated.Reason]
                 ELSE IF /\ container.State.Terminated.set
                         /\ container.State.Terminated.Reason = ""
                 THEN IF container.State.Terminated.Signal # 0
                      THEN [a EXCEPT !.reason =
                               "Signal:" \o Itoa(container.State.Terminated.Signal)]
                      ELSE [a EXCEPT !.reason =
                               "ExitCode:" \o Itoa(container.State.Terminated.ExitCode)]
                 ELSE IF container.Ready /\ container.State.Running
                 THEN [a EXCEPT !.hasRunning = TRUE, !.readyContainers = @ + 1]
                 ELSE a
        IN  containerScan(p, Tail(order), b)

\* printPod's locals after the init container loop
afterInitScan(p) ==
    initContainerScan(p, 1,
        [restarts |-> 0, restartableInitContainerRestarts |-> 0,
         readyContainers |-> 0, lastRestartDate |-> 0,
         lastRestartableInitContainerRestartDate |-> 0,
         reason |-> initialReason(p), initializing |-> FALSE,
         hasRunning |-> FALSE])

\* a guard that lets the pass run only for a pod that is not initializing
regularPassRuns_notInitializing(p, acc) == ~acc.initializing

\* the guard of the regular container pass
regularPassRuns(p, acc) ==
    ~acc.initializing \/ isPodInitializedConditionTrue(p.Conditions)

\* printPod's locals after the regular container pass and its post-process
afterContainerScan(p) ==
    LET acc == afterInitScan(p)
    IN  IF regularPassRuns(p, acc)
        THEN LET s == containerScan(p, containerOrder(Len(p.ContainerStatuses)),
                        [acc EXCEPT
                            !.restarts = acc.restartableInitContainerRestarts,
                            !.lastRestartDate =
                                acc.lastRestartableInitContainerRestartDate])
             IN  IF s.reason = "Completed" /\ s.hasRunning
                 THEN [s EXCEPT !.reason =
                         IF hasPodReadyCondition(p.Conditions)
                         THEN "Running" ELSE "NotReady"]
                 ELSE s
        ELSE acc

\* a deletion timestamp step that does not look at the phase
deletionReason_anyPhase(p, reason) ==
    IF p.DeletionTimestamp /\ p.Reason = "NodeLost" THEN "Unknown"
    ELSE IF p.DeletionTimestamp THEN "Terminating"
    ELSE reason

\* the deletion timestamp step
deletionReason(p, reason) ==
    IF p.DeletionTimestamp /\ p.Reason = NodeUnreachablePodReason THEN "Unknown"
    ELSE IF p.DeletionTimestamp /\ ~IsPodPhaseTerminal(p.Phase) THEN "Terminating"
    ELSE reason

\* a Restarts cell that shows the date whenever there is one
restartsStr_dated(restarts, lastRestartDate, t) ==
    IF lastRestartDate # 0
    THEN Itoa(restarts) \o " (" \o translateTimestampSince(lastRestartDate, t) \o " ago)"
    ELSE Itoa(restarts)

\* the Restarts cell
restartsStr(restarts, lastRestartDate, t) ==
    IF restarts # 0 /\ lastRestartDate # 0
    THEN Itoa(restarts) \o " (" \o translateTimestampSince(lastRestartDate, t) \o " ago)"
    ELSE Itoa(restarts)

\* printPod: the PodInfo of pod p, the clock reading t
printPod(p, t) ==
    LET acc == afterContainerScan(p)
    IN  [Name |-> p.Name,
         ReadyContainers |-> Itoa(acc.readyContainers) \o "/" \o Itoa(totalContainers(p)),
         Status |-> deletionReason(p, acc.reason),
         Restarts |-> restartsStr(acc.restarts, acc.lastRestartDate, t),
         CreationTimestamp |-> translateTimestampSince(p.CreationTimestamp, t)]

NoInfo ==
    [Name |-> "", ReadyContainers |-> "", Status |-> "", Restarts |-> "",
     CreationTimestamp |-> ""]

-----------------------------------------------------------------------------
(* printPod, src/unnamed/part_000:213-317: no restartable init containers,  *)
(* no Initialized condition, no post-process                                *)

RECURSIVE initContainerScan_part000(_, _, _)
\* the loop over pod.Status.InitContainerStatuses, from status i on
initContainerScan_part000(p, i, acc) ==
    IF i > Len(p.InitContainerStatuses) THEN acc
    ELSE
        LET container == p.InitContainerStatuses[i]
            a == accountRestart(acc, container)
        IN  IF container.State.Terminated.set /\ container.State.Terminated.ExitCode = 0
            THEN initContainerScan_part000(p, i + 1, a)
            ELSE IF container.State.Terminated.set
            THEN [a EXCEPT !.reason = initTerminatedReason(container.State.Terminated),
                           !.initializing = TRUE]
            ELSE IF initWaitingReason(container)
            THEN [a EXCEPT !.reason = "Init:" \o container.State.Waiting.Reason,
                           !.initializing = TRUE]
            ELSE [a EXCEPT !.reason = "Init:" \o Itoa(i - 1) \o "/"
                                        \o Itoa(Len(p.InitContainers)),
                           !.initializing = TRUE]

\* printPod's locals before the deletion timestamp step
afterContainerScan_part000(p) ==
    LET acc == initContainerScan_part000(p, 1,
                 [restarts |-> 0, restartableInitContainerRestarts |-> 0,
                  readyContainers |-> 0, lastRestartDate |-> 0,
                  lastRestartableInitContainerRestartDate |-> 0,
                  reason |-> IF p.Reason # "" THEN p.Reason ELSE p.Phase,
                  initializing |-> FALSE, hasRunning |-> FALSE])
    IN  IF ~acc.initializing
        THEN containerScan(p, containerOrder(Len(p.ContainerStatuses)),
                           [acc EXCEPT !.restarts = 0])
        ELSE acc

\* printPod of part_000: the PodInfo of pod p (its Reason field is named
\* Status here, as in the later revision)
printPod_part000(p, t) ==
    LET acc == afterContainerScan_part000(p)
        reason == IF p.DeletionTimestamp /\ p.Reason = "NodeLost" THEN "Unknown"
                  ELSE IF p.DeletionTimestamp THEN "Terminating"
                  ELSE acc.reason
    IN  [Name |-> p.Name,
         ReadyContainers |-> Itoa(acc.readyContainers) \o "/" \o Itoa(Len(p.Containers)),
         Status |-> reason,
         Restarts |-> IF acc.lastRestartDate # 0
                      THEN Itoa(acc.restarts) \o " ("
                           \o translateTimestampSince(acc.lastRestartDate, t) \o " ago)"
                      ELSE Itoa(acc.restarts),
         CreationTimestamp |-> translateTimestampSince(p.CreationTimestamp, t)]

-----------------------------------------------------------------------------
(* The table printers                                                      *)

\* a line on standard output; kind is "header", "row", "none" (the
\* "No resources found" line) or "log" (a "Failed to print" message)
Line(kind, text) == [kind |-> kind, text |-> text]

RECURSIVE Sprintf(_, _)
\* fmt.Sprintf of formatStr, "%-<w1>s%-<w2>s...\n", without the line break
Sprintf(widths, cells) ==
    IF cells = <<>> THEN ""
    ELSE PadRight(Head(cells), Head(widths)) \o Sprintf(Tail(widths), Tail(cells))

RECURSIVE MaxLen(_, _, _)
\* the running maximum the printers keep per column, starting from start
MaxLen(rows, col, start) ==
    IF rows = <<>> THEN start
    ELSE MaxLen(Tail(rows), col, Max(start, Len(Head(rows)[col])))

\* the header cells: the constants Name, Ready, Status, Restart, Age
PodHeader == <<"Name", "Ready", "Status", "Restart", "Age">>

\* the constants Name, Namespace, Phase, Age of package jobflow
JobFlowHeader == <<"Name", "Namespace", "Phase", "Age">>

\* columnSpacing of PrintPods
PodColumnSpacing == 8

\* columnSpacing of PrintJobFlows
JobFlowColumnSpacing == 4

\* the cells of a PodInfo in column order
PodCells(i) == <<i.Name, i.ReadyContainers, i.Status, i.Restarts, i.CreationTimestamp>>

\* infoList of PrintPods, as rows of cells
PodRows(pods, t) == [k \in 1..Len(pods) |-> PodCells(printPod(pods[k], t))]

\* widths of PrintPods without the spacing
PodWidths_noSpacing(rows) == [col \in 1..Len(PodHeader) |-> MaxLen(rows, col, 0)]

\* maxNameLen .. maxAgeLen of PrintPods after the spacing is added: the
\* maxima start at 0
PodWidths(rows) ==
    [col \in 1..Len(PodHeader) |-> MaxLen(rows, col, 0) + PodColumnSpacing]

\* the cells of a jobflow in column order
JobFlowCells(jf, t) ==
    <<jf.Name, jf.Namespace, jf.Phase, translateTimestampSince(jf.CreationTimestamp, t)>>

JobFlowRows(jobFlows, t) == [k \in 1..Len(jobFlows) |-> JobFlowCells(jobFlows[k], t)]

\* widths of PrintJobFlows whose maxima start at 0
JobFlowWidths_fromZero(rows) ==
    [col \in 1..Len(JobFlowHeader) |-> MaxLen(rows, col, 0) + JobFlowColumnSpacing]

\* calculateMaxInfoLength plus the spacing: the maxima start at the header's length
JobFlowWidths(rows) ==
    [col \in 1..Len(JobFlowHeader) |->
        MaxLen(rows, col, Len(JobFlowHeader[col])) + JobFlowColumnSpacing]

\* the table as the lines to write, the header first
TableLines(header, widths, rows) ==
    <<Line("header", Sprintf(widths, header))>>
    \o [k \in 1..Len(rows) |-> Line("row", Sprintf(widths, rows[k]))]

\* the error of a failed write
WriteError == "short write"

FailedPod == Line("log", "Failed to print Pod information: " \o WriteError \o ".")
FailedJobFlow == Line("log", "Failed to print JobFlow command result: " \o WriteError \o ".")

RECURSIVE WriteUntilError(_, _, _, _)
\* PrintPods' writes from line k on: a failed write is reported and the
\* function returns. fail is the set of line writes the writer fails.
WriteUntilError(lines, k, fail, out) ==
    IF k > Len(lines) THEN out
    ELSE IF k \in fail
    THEN [attempts |-> out.attempts + 1, lines |-> Append(out.lines, FailedPod)]
    ELSE WriteUntilError(lines, k + 1, fail,
            [attempts |-> out.attempts + 1, lines |-> Append(out.lines, lines[k])])

RECURSIVE WriteAll(_, _, _, _)
\* PrintJobFlows' writes from line k on: a failed write is reported and the
\* loop goes on
WriteAll(lines, k, fail, out) ==
    IF k > Len(lines) THEN out
    ELSE WriteAll(lines, k + 1, fail,
            [attempts |-> out.attempts + 1,
             lines |-> Append(out.lines, IF k \in fail THEN FailedJobFlow ELSE lines[k])])

Nothing == [attempts |-> 0, lines |-> <<>>]

\* a table ready to be written: the widths of formatStr, the header line
\* and the row lines
Table(header, widths, rows) ==
    [widths |-> widths, lines |-> TableLines(header, widths, rows)]

\* PrintPods up to its first write
PodTable(pods, t) ==
    LET rows == PodRows(pods, t)
    IN  Table(PodHeader, PodWidths(rows), rows)

\* PrintPods of part_000 up to its first write
PodTable_part000(pods, t) ==
    LET rows == [k \in 1..Len(pods) |-> PodCells(printPod_part000(pods[k], t))]
    IN  Table(PodHeader, PodWidths(rows), rows)

\* PrintJobFlows up to its first write
JobFlowTable(jobFlows, t) ==
    LET rows == JobFlowRows(jobFlows, t)
    IN  Table(JobFlowHeader, JobFlowWidths(rows), rows)

\* PrintPods' writes, os.Stdout the writer: the write attempts and what
\* standard output holds afterwards
PrintPods(table, fail) == WriteUntilError(table.lines, 1, fail, Nothing)

\* PrintJobFlows' writes, os.Stdout the writer
PrintJobFlows(table, fail) == WriteAll(table.lines, 1, fail, Nothing)

NoResourcesFound == Line("none", "No resources found")

\* an end of the commands without the test for the empty list
printOrNone_table(items, table, printed) ==
    [widths |-> table.widths, attempts |-> printed.attempts, lines |-> printed.lines]

\* the end of ListPods and of ListJobFlow: an empty list prints the one
\* line and no table, any other list is printed
printOrNone(items, table, printed) ==
    IF Len(items) = 0
    THEN [widths |-> <<>>, attempts |-> 0, lines |-> <<NoResourcesFound>>]
    ELSE [widths |-> table.widths, attempts |-> printed.attempts, lines |-> printed.lines]

-----------------------------------------------------------------------------
(* Label selectors                                                         *)

\* values labels.NewRequirement rejects (validation.IsValidLabelValue)
InvalidLabelValues == {"my job"}

\* labels.NewRequirement: the requirement, or the error for an invalid value
NewRequirement(key, op, vals) ==
    IF op = "in" /\ \E k \in 1..Len(vals) : vals[k] \in InvalidLabelValues
    THEN [err |-> "invalid label value", req |-> [key |-> key, operator |-> op, vals |-> <<>>]]
    ELSE [err |-> "nil", req |-> [key |-> key, operator |-> op, vals |-> vals]]

\* a createLabelSelector that adds "job-name exists" whenever no job is given
createLabelSelector_exists(jobName, queueName) ==
    LET job == NewRequirement(JobNameKey, "in", <<jobName>>)
        queue == NewRequirement(QueueNameKey, "in", <<queueName>>)
        exists == NewRequirement(JobNameKey, "exists", <<>>)
    IN  IF jobName # "" /\ job.err # "nil" THEN [err |-> job.err, selector |-> <<>>]
        ELSE IF queueName # "" /\ queue.err # "nil" THEN [err |-> queue.err, selector |-> <<>>]
        ELSE [err |-> "nil",
              selector |-> (IF jobName # "" THEN <<job.req>> ELSE <<exists.req>>)
                           \o (IF queueName # "" THEN <<queue.req>> ELSE <<>>)]

\* createLabelSelector(jobName, queueName): the error, and the selector as
\* the requirements labels.NewSelector().Add holds (sorted by key, which is
\* the order they are added in)
createLabelSelector(jobName, queueName) ==
    LET job == NewRequirement(JobNameKey, "in", <<jobName>>)
        queue == NewRequirement(QueueNameKey, "in", <<queueName>>)
        exists == NewRequirement(JobNameKey, "exists", <<>>)
        reqs == (IF jobName # "" THEN <<job.req>> ELSE <<>>)
                \o (IF queueName # "" THEN <<queue.req>> ELSE <<>>)
    IN  IF jobName # "" /\ job.err # "nil" THEN [err |-> job.err, selector |-> <<>>]
        ELSE IF queueName # "" /\ queue.err # "nil" THEN [err |-> queue.err, selector |-> <<>>]
        ELSE IF Len(reqs) > 0 THEN [err |-> "nil", selector |-> reqs]
        ELSE IF exists.err # "nil" THEN [err |-> exists.err, selector |-> <<>>]
        ELSE [err |-> "nil", selector |-> <<exists.req>>]

\* createLabelSelector(jobName) of part_000
createLabelSelector_part000(jobName) ==
    LET r == IF jobName = "" THEN NewRequirement(JobNameKey, "exists", <<>>)
             ELSE NewRequirement(JobNameKey, "in", <<jobName>>)
    IN  IF r.err # "nil" THEN [err |-> r.err, selector |-> <<>>]
        ELSE [err |-> "nil", selector |-> <<r.req>>]

\* labels.Requirement.String for the two operators used, one value
RequirementString(r) ==
    IF r.operator = "exists" THEN r.key
    ELSE r.key \o " in (" \o r.vals[1] \o ")"

RECURSIVE SelectorString(_)
\* labels.Selector.String: the requirements joined by ","
SelectorString(sel) ==
    IF sel = <<>> THEN ""
    ELSE IF Len(sel) = 1 THEN RequirementString(sel[1])
    ELSE RequirementString(sel[1]) \o "," \o SelectorString(Tail(sel))

\* labels.Selector.Matches: every requirement holds of the label set
Matches(sel, labels) ==
    \A k \in 1..Len(sel) :
        /\ sel[k].key \in DOMAIN labels
        /\ sel[k].operator = "in" =>
              \E v \in 1..Len(sel[k].vals) : labels[sel[k].key] = sel[k].vals[v]

-----------------------------------------------------------------------------
(* The environment: clock, API server, flag values                         *)

StartTime == 500   \* the time the listed objects were created at
Later == 400       \* seconds a later run of the command comes after it

\* the clock readings a command runs at
Clock == {StartTime, StartTime + Later}

JobLabel(job) == [k \in {JobNameKey} |-> job]
QueueLabel(queue) == [k \in {QueueNameKey} |-> queue]
JobQueueLabels(job, queue) ==
    [k \in {JobNameKey, QueueNameKey} |-> IF k = JobNameKey THEN job ELSE queue]

\* a pod whose container keeps crashing, created at an unknown time
CrashingPod ==
    [TestPod("my-pod1", "default", QueueLabel("my-queue1"), 0) EXCEPT
        !.ContainerStatuses =
            <<ContainerStatus("my-container", StateWaiting("CrashLoopBackOff"),
                              FALSE, "false", 12, LastTermination(StartTime - 60))>>]

\* the pods a list response is made of: the pods of the tests (they differ
\* in namespace or in job name only) and one with wider cells
PodCatalogue ==
    { TestPod("my-pod", "default", JobLabel("my-job1"), StartTime),
      TestPod("my-pod", "default", JobLabel("my-job2"), StartTime),
      TestPod("my-pod", "kube-system", JobLabel("my-job1"), StartTime),
      CrashingPod }

JobFlow(name, namespace, phase, created) ==
    [Name |-> name, Namespace |-> namespace, Phase |-> phase,
     CreationTimestamp |-> created]

JobFlowCatalogue ==
    { JobFlow("jf", "default", "Succeed", StartTime),
      JobFlow("a-longer-jobflow-name", "kube-system-of-a-tenant", "Terminating", 0),
      JobFlow("my-jobflow", "default", "", StartTime - 3600) }

Namespaces == {"default", "kube-system"}
JobNames == {"", "my-job1", "my-job2", "my job"}
QueueNames == {"", "my-queue1"}

\* errors util.BuildConfig returns
ConfigErrors == {"invalid configuration", "stat kubeconfig: no such file"}
\* errors the client's List returns
ListErrors == {"connection refused", "forbidden"}

NoFault == [call |-> "none", error |-> "nil"]
Fault(call, e) == [call |-> call, error |-> e]

\* one List call: the namespace it is scoped to, the label selector it was
\* given and ListOptions.LabelSelector, that selector's String()
ListCall(namespace, labelSelector) ==
    [Namespace |-> namespace, Selector |-> labelSelector,
     LabelSelector |-> SelectorString(labelSelector)]

-----------------------------------------------------------------------------
(* Startup: the flags are parsed, the server is given its list             *)

envVars == <<listPodFlags, listJobFlowFlags, server, now>>
callVars == <<cmd, fault, err, request, rendered, formatStr, attempts, stdout>>
podVars == <<pod, info, pc>>

\* InitListFlags of package pod binds the flags; parsing the command line
\* (or the test) sets one
SetPodFlag ==
    /\ cmd = "none"
    /\ server.kind = "PodList"
    /\ \/ \E ns \in Namespaces : listPodFlags' = [listPodFlags EXCEPT !.Namespace = ns]
       \/ \E j \in JobNames : listPodFlags' = [listPodFlags EXCEPT !.JobName = j]
       \/ \E q \in QueueNames : listPodFlags' = [listPodFlags EXCEPT !.QueueName = q]
       \/ listPodFlags' = [listPodFlags EXCEPT !.allNamespace = ~@]
    /\ UNCHANGED <<listJobFlowFlags, server, now>>
    /\ UNCHANGED callVars
    /\ UNCHANGED podVars

\* InitListFlags of package jobflow
SetJobFlowFlag ==
    /\ cmd = "none"
    /\ server.kind = "JobFlowList"
    /\ \E ns \in Namespaces : listJobFlowFlags' = [listJobFlowFlags EXCEPT !.Namespace = ns]
    /\ UNCHANGED <<listPodFlags, server, now>>
    /\ UNCHANGED callVars
    /\ UNCHANGED podVars

\* the server's list gets one more item (the Response of a test case)
AddItem ==
    /\ cmd = "none"
    /\ Len(server.items) < MaxItems
    /\ \E item \in IF server.kind = "PodList" THEN PodCatalogue ELSE JobFlowCatalogue :
          server' = [server EXCEPT !.items = Append(@, item)]
    /\ UNCHANGED <<listPodFlags, listJobFlowFlags, now>>
    /\ UNCHANGED callVars
    /\ UNCHANGED podVars

-----------------------------------------------------------------------------
(* The commands                                                            *)

\* what a command leaves behind when it returns
Return(c, f, e, calls, items, out) ==
    /\ cmd' = c
    /\ fault' = f
    /\ err' = e
    /\ request' = calls
    /\ rendered' = items
    /\ formatStr' = out.widths
    /\ attempts' = out.attempts
    /\ stdout' = out.lines

\* an error path that drops the error and reports an empty list
ReturnError_dropped(c, call, e, calls) ==
    Return(c, Fault(call, e), "nil", calls, <<>>,
           [widths |-> <<>>, attempts |-> 0, lines |-> <<NoResourcesFound>>])

\* "if err != nil { return err }": the call that failed and its error e;
\* nothing is printed
ReturnError(c, call, e, calls) ==
    Return(c, Fault(call, e), e, calls, <<>>,
           [widths |-> <<>>, attempts |-> 0, lines |-> <<>>])

\* the line writes of a table of n rows that the writer may fail
Failures(n) == SUBSET (1..(n + 1))

\* ListPods, src/pkg/cli/pod/pod_test.go:315-344
ListPods ==
    /\ server.kind = "PodList"
    /\ UNCHANGED <<listJobFlowFlags, server, now>>
    /\ UNCHANGED podVars
    /\ \/ \E e \in ConfigErrors :
            /\ listPodFlags' = listPodFlags
            /\ ReturnError("ListPods", "BuildConfig", e, <<>>)
       \/ LET flags == IF listPodFlags.allNamespace
                       THEN [listPodFlags EXCEPT !.Namespace = ""] ELSE listPodFlags
              labelSelector == createLabelSelector(flags.JobName, flags.QueueName)
              call == ListCall(flags.Namespace, labelSelector.selector)
          IN  /\ listPodFlags' = flags
              /\ IF labelSelector.err # "nil"
                 THEN ReturnError("ListPods", "NewRequirement", labelSelector.err, <<>>)
                 ELSE \/ \E e \in ListErrors : ReturnError("ListPods", "List", e, <<call>>)
                      \/ \E table \in {PodTable(server.items, now)} :
                         \E fail \in Failures(Len(server.items)) :
                            Return("ListPods", NoFault, "nil", <<call>>, server.items,
                                   printOrNone(server.items, table, PrintPods(table, fail)))

\* ListJobFlow, src/pkg/cli/jobflow/list.go:46-64
ListJobFlow ==
    /\ server.kind = "JobFlowList"
    /\ UNCHANGED envVars
    /\ UNCHANGED podVars
    /\ LET call == ListCall(listJobFlowFlags.Namespace, <<>>)
       IN  \/ \E e \in ConfigErrors : ReturnError("ListJobFlow", "BuildConfig", e, <<>>)
           \/ \E e \in ListErrors : ReturnError("ListJobFlow", "List", e, <<call>>)
           \/ \E table \in {JobFlowTable(server.items, now)} :
              \E fail \in Failures(Len(server.items)) :
                 Return("ListJobFlow", NoFault, "nil", <<call>>, server.items,
                        printOrNone(server.items, table, PrintJobFlows(table, fail)))

\* a filterFunc without the namespace test
filterFunc_anyNamespace(flags, p) ==
    IF flags.JobName # "" /\ flags.JobName # Lookup(p.Labels, JobNameKey) THEN FALSE
    ELSE TRUE

\* a filterFunc without the job name test
filterFunc_anyJob(flags, p) ==
    IF flags.Namespace # "" /\ flags.Namespace # p.Namespace THEN FALSE
    ELSE TRUE

\* filterFunc of part_000's ListPods, with the flag values it reads
filterFunc(flags, p) ==
    IF flags.Namespace # "" /\ flags.Namespace # p.Namespace THEN FALSE
    ELSE IF flags.JobName # "" /\ flags.JobName # Lookup(p.Labels, JobNameKey) THEN FALSE
    ELSE TRUE

\* filterPods of part_000
filterPods(pods, flags) == SelectSeq(pods, LAMBDA p : filterFunc(flags, p))

\* ListPods, src/unnamed/part_000:62-105
ListPods_part000 ==
    /\ server.kind = "PodList"
    /\ UNCHANGED <<listJobFlowFlags, server, now>>
    /\ UNCHANGED podVars
    /\ \/ \E e \in ConfigErrors :
            /\ listPodFlags' = listPodFlags
            /\ ReturnError("ListPods", "BuildConfig", e, <<>>)
       \/ LET flags == IF listPodFlags.allNamespace
                       THEN [listPodFlags EXCEPT !.Namespace = ""] ELSE listPodFlags
              labelSelector == createLabelSelector_part000(flags.JobName)
              call == ListCall(flags.Namespace, labelSelector.selector)
          IN  /\ listPodFlags' = flags
              /\ IF labelSelector.err # "nil"
                 THEN ReturnError("ListPods", "NewRequirement", labelSelector.err, <<>>)
                 ELSE \/ \E e \in ListErrors : ReturnError("ListPods", "List", e, <<call>>)
                      \/ \E filteredPods \in {filterPods(server.items, flags)} :
                         \E table \in {PodTable_part000(filteredPods, now)} :
                         \E fail \in Failures(Len(filteredPods)) :
                            Return("ListPods", NoFault, "nil", <<call>>, filteredPods,
                                   printOrNone(filteredPods, table, PrintPods(table, fail)))

-----
(* Specifications                                                          *)

DefaultPodFlags ==
    [Namespace |-> "default", JobName |-> "", QueueName |-> "", allNamespace |-> FALSE]

DefaultJobFlowFlags == [Namespace |-> "default"]

NoCall ==
    /\ cmd = "none"
    /\ fault = NoFault
    /\ err = "nil"
    /\ request = <<>>
    /\ rendered = <<>>
    /\ formatStr = <<>>
    /\ attempts = 0
    /\ stdout = <<>>

NoPod ==
    /\ pod = TestPod("my-pod", "default", JobLabel("my-job"), StartTime)
    /\ info = NoInfo
    /\ pc = "idle"

\* the process at startup: the flags at their defaults, a server of either kind
Init ==
    /\ listPodFlags = DefaultPodFlags
    /\ listJobFlowFlags = DefaultJobFlowFlags
    /\ server \in {[kind |-> k, items |-> <<>>] : k \in {"PodList", "JobFlowList"}}
    /\ now \in Clock
    /\ NoCall
    /\ NoPod

\* pod list (pod_test.go:248-637) and jobflow list
Next == SetPodFlag \/ SetJobFlowFlag \/ AddItem \/ ListPods \/ ListJobFlow

Spec == Init /\ [][Next]_vars

\* pod list of part_000
InitFilter ==
    /\ listPodFlags = DefaultPodFlags
    /\ listJobFlowFlags = DefaultJobFlowFlags
    /\ server = [kind |-> "PodList", items |-> <<>>]
    /\ now \in Clock
    /\ NoCall
    /\ NoPod

NextFilter == SetPodFlag \/ AddItem \/ ListPods_part000

SpecFilter == InitFilter /\ [][NextFilter]_vars

-----------------------------------------------------------------------------
(* printPod as a function of its pod                                       *)

\* the status of an init container, by what the kubelet reports of it
InitStatusKinds ==
    { ContainerStatus("", StateTerminated(0, 0, "Completed"), FALSE, "nil", 0, NoLastTermination),
      ContainerStatus("", StateTerminated(1, 0, "Error"), FALSE, "nil", 2,
                      LastTermination(StartTime + 60)),
      ContainerStatus("", StateTerminated(137, 9, ""), FALSE, "nil", 0, NoLastTermination),
      ContainerStatus("", StateTerminated(2, 0, ""), FALSE, "nil", 0, NoLastTermination),
      ContainerStatus("", StateWaiting("PodInitializing"), FALSE, "nil", 0, NoLastTermination),
      ContainerStatus("", StateWaiting("CrashLoopBackOff"), FALSE, "false", 2,
                      LastTermination(StartTime + 120)),
      ContainerStatus("", StateRunning, TRUE, "true", 1, LastTermination(StartTime + 30)),
      ContainerStatus("", StateRunning, FALSE, "true", 0, NoLastTermination),
      ContainerStatus("", StateRunning, FALSE, "false", 0, NoLastTermination),
      ContainerStatus("", StateNone, FALSE, "nil", 0, NoLastTermination) }

\* the status of a regular container
StatusKinds ==
    { ContainerStatus("", StateRunning, TRUE, "true", 0, NoLastTermination),
      ContainerStatus("", StateRunning, TRUE, "true", 1, LastTermination(StartTime + 90)),
      ContainerStatus("", StateRunning, FALSE, "true", 0, LastTermination(StartTime + 90)),
      ContainerStatus("", StateWaiting("CrashLoopBackOff"), FALSE, "false", 3,
                      LastTermination(StartTime + 200)),
      ContainerStatus("", StateWaiting(""), FALSE, "false", 0, NoLastTermination),
      ContainerStatus("", StateTerminated(0, 0, "Completed"), FALSE, "false", 0,
                      NoLastTermination),
      ContainerStatus("", StateTerminated(1, 0, ""), FALSE, "false", 0, NoLastTermination) }

\* the statuses named after their position: the i-th is "<prefix><i>"
Named(statuses, prefix) ==
    [i \in 1..Len(statuses) |-> [statuses[i] EXCEPT !.Name = prefix \o Itoa(i)]]

\* declared init containers "init-1", "init-2", ... with the restart policies given
Declared(policies) ==
    [i \in 1..Len(policies) |-> InitContainer("init-" \o Itoa(i), policies[i])]

\* phase, status reason and deletion timestamp of a generated pod
Lifecycles ==
    { <<"Pending", "", FALSE>>, <<"Running", "", FALSE>>, <<"Running", "", TRUE>>,
      <<"Succeeded", "", TRUE>>, <<"Running", "NodeLost", TRUE>> }

\* the conditions of a generated pod
ConditionLists ==
    { <<>>,
      <<Condition("Ready", "True", "")>>,
      <<Condition("Initialized", "True", ""), Condition("Ready", "True", "")>>,
      <<Condition("Initialized", "False", ""), Condition("Initialized", "True", "")>> }

GeneratedPod(containers, policies, initStatuses, statuses, life, conditions) ==
    [Name |-> "my-pod", Namespace |-> "default", Labels |-> JobLabel("my-job"),
     CreationTimestamp |-> StartTime, DeletionTimestamp |-> life[3],
     Containers |-> containers, InitContainers |-> Declared(policies),
     Phase |-> life[1], Reason |-> life[2], Conditions |-> conditions,
     InitContainerStatuses |-> Named(initStatuses, "init-"),
     ContainerStatuses |-> Named(statuses, "c-")]

\* a pod within the bounds is handed to printPod
InitPod ==
    /\ listPodFlags = DefaultPodFlags
    /\ listJobFlowFlags = DefaultJobFlowFlags
    /\ server = [kind |-> "PodList", items |-> <<>>]
    /\ now = StartTime + Later
    /\ NoCall
    /\ \E containers \in {<<"c-1">>, <<"c-1", "c-2">>} :
       \E policies \in SeqsUpTo({"", "Always"}, MaxInitContainers) :
       \E initStatuses \in SeqsUpTo(InitStatusKinds, MaxInitStatuses) :
       \E statuses \in SeqsUpTo(StatusKinds, MaxStatuses) :
       \E life \in Lifecycles :
       \E conditions \in ConditionLists :
          pod = GeneratedPod(containers, policies, initStatuses, statuses, life, conditions)
    /\ info = NoInfo
    /\ pc = "input"

\* printPod is applied to the pod
ApplyPrintPod ==
    /\ pc = "input"
    /\ info' = printPod(pod, now)
    /\ pc' = "done"
    /\ UNCHANGED pod
    /\ UNCHANGED envVars
    /\ UNCHANGED callVars

NextPod == ApplyPrintPod

SpecPod == InitPod /\ [][NextPod]_vars

-----------------------------------------------------------------------------
(* printPod on pods with several container statuses                        *)

MaxScanInitStatuses == 2
MaxScanStatuses == 2

\* init container statuses: completed after a restart, failed in three
\* ways, waiting with the placeholder and with a reason, running and ready
ScanInitStatusKinds ==
    { ContainerStatus("", StateTerminated(0, 0, "Completed"), FALSE, "nil", 1,
                      LastTermination(StartTime + 60)),
      ContainerStatus("", StateTerminated(1, 0, "Error"), FALSE, "nil", 2,
                      LastTermination(StartTime + 100)),
      ContainerStatus("", StateTerminated(137, 9, ""), FALSE, "nil", 0, NoLastTermination),
      ContainerStatus("", StateTerminated(2, 0, ""), FALSE, "nil", 0, NoLastTermination),
      ContainerStatus("", StateWaiting("PodInitializing"), FALSE, "nil", 0, NoLastTermination),
      ContainerStatus("", StateWaiting("CrashLoopBackOff"), FALSE, "false", 2,
                      LastTermination(StartTime + 120)),
      ContainerStatus("", StateRunning, TRUE, "true", 1, LastTermination(StartTime + 30)) }

\* regular container statuses: running and ready or not, waiting with a
\* reason, terminated with a reason, with an exit code, with a signal
ScanStatusKinds ==
    { ContainerStatus("", StateRunning, TRUE, "true", 1, LastTermination(StartTime + 90)),
      ContainerStatus("", StateRunning, FALSE, "true", 0, NoLastTermination),
      ContainerStatus("", StateWaiting("CrashLoopBackOff"), FALSE, "false", 3,
                      LastTermination(StartTime + 200)),
      ContainerStatus("", StateTerminated(0, 0, "Completed"), FALSE, "false", 0,
                      NoLastTermination),
      ContainerStatus("", StateTerminated(1, 0, ""), FALSE, "false", 0, NoLastTermination),
      ContainerStatus("", StateTerminated(137, 9, ""), FALSE, "false", 0,
                      NoLastTermination) }

ScanLifecycles == { <<"Running", "", FALSE>>, <<"Running", "", TRUE>> }

ScanConditionLists ==
    { <<>>, <<Condition("Initialized", "True", ""), Condition("Ready", "True", "")>> }

\* a pod with up to MaxScanInitStatuses init container statuses and up to
\* MaxScanStatuses regular ones is handed to printPod
InitScan ==
    /\ listPodFlags = DefaultPodFlags
    /\ listJobFlowFlags = DefaultJobFlowFlags
    /\ server = [kind |-> "PodList", items |-> <<>>]
    /\ now = StartTime + Later
    /\ NoCall
    /\ \E containers \in {<<"c-1">>, <<"c-1", "c-2">>} :
       \E policies \in SeqsUpTo({"", "Always"}, MaxInitContainers) :
       \E initStatuses \in SeqsUpTo(ScanInitStatusKinds, MaxScanInitStatuses) :
       \E statuses \in SeqsUpTo(ScanStatusKinds, MaxScanStatuses) :
       \E life \in ScanLifecycles :
       \E conditions \in ScanConditionLists :
          pod = GeneratedPod(containers, policies, initStatuses, statuses, life, conditions)
    /\ info = NoInfo
    /\ pc = "input"

SpecScan == InitScan /\ [][NextPod]_vars

-----------------------------------------------------------------------------
(* Properties                                                              *)

\* the test pod of namespace ns that belongs to job
PodOf(ns, job) == TestPod("my-pod", ns, JobLabel(job), StartTime)

\* a command ran to its end without an error from a call
Listed(c) == cmd = c /\ fault = NoFault

\* no line write of the table failed
AllWritten == \A k \in 1..Len(stdout) : stdout[k].kind # "log"

\* the number of row lines on standard output
RowCount == Cardinality({k \in 1..Len(stdout) : stdout[k].kind = "row"})

\* the k-th line on standard output is the row of the (k-1)-th rendered pod,
\* as part_000 prints it
RowsOfRendered_part000 ==
    \A k \in 2..Len(stdout) :
        stdout[k].kind = "row" =>
            stdout[k].text = Sprintf(formatStr, PodCells(printPod_part000(rendered[k - 1], now)))

\* the header line as TestListPod expects it
ExpectedHeader == "Name          Ready      Status         Restart  Age       "
\* the row line of the test pod as TestListPod expects it, before trimming
ExpectedRow == "my-pod        0/1        Running        0        0s        "

C3_LabelSelector ==
    (cmd = "ListPods" /\ request # <<>>) =>
        LET job == listPodFlags.JobName
            queue == listPodFlags.QueueName
            sel == request[1].Selector
            text == request[1].LabelSelector
            jobIn == [key |-> "volcano.sh/job-name", operator |-> "in", vals |-> <<job>>]
            queueIn == [key |-> "volcano.sh/queue-name", operator |-> "in", vals |-> <<queue>>]
            jobExists == [key |-> "volcano.sh/job-name", operator |-> "exists", vals |-> <<>>]
        IN  /\ (job # "" /\ queue = "") =>
                  /\ sel = <<jobIn>>
                  /\ text = "volcano.sh/job-name in (" \o job \o ")"
            /\ (job = "" /\ queue # "") =>
                  /\ sel = <<queueIn>>
                  /\ text = "volcano.sh/queue-name in (" \o queue \o ")"
                  /\ Matches(sel, QueueLabel(queue))
            /\ (job # "" /\ queue # "") =>
                  /\ sel = <<jobIn, queueIn>>
                  /\ text = "volcano.sh/job-name in (" \o job
                            \o "),volcano.sh/queue-name in (" \o queue \o ")"
                  /\ Matches(sel, JobQueueLabels(job, queue))
                  /\ ~Matches(sel, QueueLabel(queue))
                  /\ ~Matches(sel, JobLabel(job))
            /\ (job = "" /\ queue = "") =>
                  /\ sel = <<jobExists>>
                  /\ text = "volcano.sh/job-name"
                  /\ ~Matches(sel, QueueLabel("my-queue1"))
            /\ (\E k \in 1..Len(sel) : sel[k].operator = "exists") => (job = "" /\ queue = "")

C3_Witness ==
    /\ cmd = "ListPods"
    /\ request # <<>>
    /\ listPodFlags.JobName = ""
    /\ listPodFlags.QueueName = "my-queue1"
    /\ request[1].LabelSelector = "volcano.sh/queue-name in (my-queue1)"
    /\ \E k \in 1..Len(rendered) : JobNameKey \notin DOMAIN rendered[k].Labels

\* C4: when ListPods or ListJobFlow has no item to render, standard output
\* holds exactly the line "No resources found" (no header, no row), no table
\* line was written and the command returns nil.
C4_NoResourcesFound ==
    (cmd \in {"ListPods", "ListJobFlow"} /\ fault = NoFault /\ rendered = <<>>) =>
        /\ Len(stdout) = 1
        /\ stdout[1].text = "No resources found"
        /\ stdout[1].kind \notin {"header", "row"}
        /\ attempts = 0
        /\ err = "nil"

C4_Witness ==
    /\ cmd = "ListJobFlow"
    /\ fault = NoFault
    /\ server.items = <<>>
    /\ Len(stdout) = 1

\* C5: when BuildConfig, the selector construction or the List call fails,
\* the command returns that very error and standard output stays empty; a
\* command that met no failure returns nil; no invocation issues more than
\* one List call, and none after a failed BuildConfig or selector.
C5_ErrorReturned ==
    /\ Len(request) <= 1
    /\ fault.call # "none" =>
          /\ cmd \in {"ListPods", "ListJobFlow"}
          /\ err = fault.error
          /\ err # "nil"
          /\ stdout = <<>>
          /\ attempts = 0
          /\ fault.call = "List" => Len(request) = 1
          /\ fault.call \in {"BuildConfig", "NewRequirement"} => request = <<>>
    /\ fault.call = "none" => err = "nil"

C5_Witness ==
    /\ cmd = "ListPods"
    /\ fault.call = "List"
    /\ err = "connection refused"
    /\ Len(request) = 1
    /\ server.items # <<>>

\* the header cells of the command that ran
HeaderOf(c) == IF c = "ListPods" THEN PodHeader ELSE JobFlowHeader

\* the cells of the k-th rendered item of the command that ran
CellsOf(c, k) ==
    IF c = "ListPods" THEN PodCells(printPod(rendered[k], now))
    ELSE JobFlowCells(rendered[k], now)

\* the longest cell of a column of the rendered items
LongestCell(c, col) ==
    LET lens == {Len(CellsOf(c, k)[col]) : k \in 1..Len(rendered)}
    IN  CHOOSE m \in lens : \A n \in lens : n <= m

RECURSIVE Sum(_)
Sum(widths) == IF widths = <<>> THEN 0 ELSE Head(widths) + Sum(Tail(widths))

\* a table was printed by command c
Printed(c) == Listed(c) /\ rendered # <<>>

\* C6: whenever PrintPods or PrintJobFlows printed a non-empty row set,
\* every column's width is at least the length of its header and at least
\* the length of each of its cells, and every header or row line written is
\* exactly as long as the widths add up to (nothing overflows its column).
C6_WidthsCoverCells ==
    \A c \in {"ListPods", "ListJobFlow"} :
        Printed(c) =>
            /\ Len(formatStr) = Len(HeaderOf(c))
            /\ \A col \in 1..Len(formatStr) :
                  /\ formatStr[col] >= Len(HeaderOf(c)[col])
                  /\ \A k \in 1..Len(rendered) : formatStr[col] >= Len(CellsOf(c, k)[col])
            /\ \A k \in 1..Len(stdout) :
                  stdout[k].kind \in {"header", "row"} => Len(stdout[k].text) = Sum(formatStr)

C6_Witness ==
    /\ Printed("ListPods")
    /\ \E k \in 1..Len(rendered) : rendered[k] = CrashingPod
    /\ Len(stdout) = Len(rendered) + 1
    /\ AllWritten

\* C7 as stated: for both commands a column is max(len(header), longest
\* cell) + spacing wide, the spacing 8 for pods and 4 for jobflows.
C7_Padding_AsStated ==
    /\ Printed("ListPods") =>
          \A col \in 1..Len(PodHeader) :
              formatStr[col] = Max(Len(PodHeader[col]), LongestCell("ListPods", col)) + 8
    /\ Printed("ListJobFlow") =>
          \A col \in 1..Len(JobFlowHeader) :
              formatStr[col]
                = Max(Len(JobFlowHeader[col]), LongestCell("ListJobFlow", col)) + 4

\* C7: a jobflow column is max(len(header), longest cell) + 4 wide; a pod
\* column is longest cell + 8 wide, the header's length taking no part in
\* the maximum.
C7_Padding ==
    /\ Printed("ListPods") =>
          \A col \in 1..Len(PodHeader) :
              formatStr[col] = LongestCell("ListPods", col) + 8
    /\ Printed("ListJobFlow") =>
          \A col \in 1..Len(JobFlowHeader) :
              formatStr[col]
                = Max(Len(JobFlowHeader[col]), LongestCell("ListJobFlow", col)) + 4

C7_Witness ==
    /\ Printed("ListPods")
    /\ formatStr[4] = 9
    /\ stdout[1] = Line("header", ExpectedHeader)

\* C8 as stated: whichever line writes fail, PrintPods and PrintJobFlows
\* attempt one write for the header and one for each of the N rows.
C8_EveryLineAttempted ==
    \A c \in {"ListPods", "ListJobFlow"} :
        Printed(c) => attempts = Len(rendered) + 1

\* the pod has one init container status, Waiting with reason PodInitializing
SinglePodInitializing(p) ==
    /\ Len(p.InitContainerStatuses) = 1
    /\ p.InitContainerStatuses[1].State.Waiting.set
    /\ p.InitContainerStatuses[1].State.Waiting.Reason = "PodInitializing"
    /\ p.InitContainerStatuses[1].Started # "true"

\* the statuses of regular containers the regular pass counts as ready
ReadyAndRunning(p) ==
    {i \in 1..Len(p.ContainerStatuses) :
        /\ p.ContainerStatuses[i].Ready
        /\ p.ContainerStatuses[i].State.Running
        /\ ~p.ContainerStatuses[i].State.Waiting.set
        /\ ~p.ContainerStatuses[i].State.Terminated.set}

\* the Ready cells whose ready count is n
ReadyCells(p, n) ==
    {Itoa(n) \o "/" \o Itoa(total) :
        total \in 0..(Len(p.Containers) + Len(p.InitContainers))}

\* C9 as stated: for a pod whose single init container status is Waiting
\* with reason PodInitializing the Status carries no "Init:" prefix and the
\* regular pass runs (it counts the ready and running containers).
C9_NotInitializing_AsStated ==
    (pc = "done" /\ SinglePodInitializing(pod)) =>
        /\ info.Status \notin
              {"Init:PodInitializing"}
              \cup {"Init:" \o Itoa(i) \o "/" \o Itoa(n) : i \in 0..2, n \in 0..4}
        /\ info.ReadyContainers \in ReadyCells(pod, Cardinality(ReadyAndRunning(pod)))

\* C9: a pod whose single init container status is Waiting with reason
\* PodInitializing is marked initializing: unless the pod is being deleted
\* or its Initialized condition is True, the Status is "Init:0/<declared init
\* containers>", never the placeholder reason; the regular pass runs only
\* when the Initialized condition is True, otherwise no container is
\* counted as ready.
C9_PodInitializing ==
    (pc = "done" /\ SinglePodInitializing(pod)) =>
        /\ info.Status # "Init:PodInitializing"
        /\ (~isPodInitializedConditionTrue(pod.Conditions) /\ ~pod.DeletionTimestamp) =>
              info.Status = "Init:0/" \o Itoa(Len(pod.InitContainers))
        /\ ~isPodInitializedConditionTrue(pod.Conditions) =>
              info.ReadyContainers \in ReadyCells(pod, 0)
        /\ isPodInitializedConditionTrue(pod.Conditions) =>
              info.ReadyContainers \in ReadyCells(pod, Cardinality(ReadyAndRunning(pod)))

C9_Witness ==
    /\ pc = "done"
    /\ SinglePodInitializing(pod)
    /\ Len(pod.InitContainers) = 1
    /\ ReadyAndRunning(pod) # {}
    /\ info.Status = "Init:0/1"
    /\ info.ReadyContainers = "0/1"

\* C10: the Ready cell is "<ready>/<total>", total the number of declared
\* containers plus the number of declared init containers whose restart
\* policy is Always; a pod with one declared container, no such init
\* container and no status reported ready has "0/1".
C10_ReadyCell ==
    pc = "done" =>
        LET always == {i \in 1..Len(pod.InitContainers) :
                          pod.InitContainers[i].RestartPolicy = "Always"}
            total == Len(pod.Containers) + Cardinality(always)
            reported == Len(pod.ContainerStatuses) + Len(pod.InitContainerStatuses)
            noneReady ==
                /\ \A i \in 1..Len(pod.ContainerStatuses) : ~pod.ContainerStatuses[i].Ready
                /\ \A i \in 1..Len(pod.InitContainerStatuses) :
                      ~pod.InitContainerStatuses[i].Ready
        IN  /\ \E ready \in 0..reported :
                  info.ReadyContainers = Itoa(ready) \o "/" \o Itoa(total)
            /\ (Len(pod.Containers) = 1 /\ always = {} /\ noneReady) =>
                  info.ReadyContainers = "0/1"

C10_Witness ==
    /\ pc = "done"
    /\ Len(pod.Containers) = 2
    /\ Len(pod.InitContainers) = 2
    /\ pod.InitContainers[1].RestartPolicy = "Always"
    /\ pod.InitContainers[2].RestartPolicy = ""
    /\ info.ReadyContainers = "1/3"

\* the pod's Ready condition is true
ReadyConditionTrue(p) ==
    \E i \in 1..Len(p.Conditions) :
        p.Conditions[i].Type = "Ready" /\ p.Conditions[i].Status = "True"

\* the init container of that name is declared with restart policy Always
DeclaredAlways(p, name) ==
    \E j \in 1..Len(p.InitContainers) :
        p.InitContainers[j].Name = name /\ p.InitContainers[j].RestartPolicy = "Always"

\* the i-th init container status has terminated with exit code 0
InitCompleted(p, i) ==
    /\ p.InitContainerStatuses[i].State.Terminated.set
    /\ p.InitContainerStatuses[i].State.Terminated.ExitCode = 0

\* the i-th init container status is one of a started restartable container
InitStartedSidecar(p, i) ==
    /\ DeclaredAlways(p, p.InitContainerStatuses[i].Name)
    /\ p.InitContainerStatuses[i].Started = "true"

\* the i-th init container status stops the init container scan
InitBlocks(p, i) == ~InitCompleted(p, i) /\ ~InitStartedSidecar(p, i)

\* the index of the first init container status that stops the scan, 0 if none
FirstBlocking(p) ==
    LET blocking == {i \in 1..Len(p.InitContainerStatuses) : InitBlocks(p, i)}
    IN  IF blocking = {} THEN 0 ELSE CHOOSE i \in blocking : \A j \in blocking : i <= j

\* the i-th regular container status is waiting with a reason or terminated
HasReasonCandidate(p, i) ==
    \/ /\ p.ContainerStatuses[i].State.Waiting.set
       /\ p.ContainerStatuses[i].State.Waiting.Reason # ""
    \/ p.ContainerStatuses[i].State.Terminated.set

InitializedConditionTrue(p) ==
    \E i \in 1..Len(p.Conditions) :
        /\ p.Conditions[i].Type = "Initialized"
        /\ p.Conditions[i].Status = "True"
        /\ \A j \in 1..(i - 1) : p.Conditions[j].Type # "Initialized"

\* the init container statuses the init scan looks at: those up to and
\* including the first that stops it
Scanned(p) ==
    IF FirstBlocking(p) = 0 THEN 1..Len(p.InitContainerStatuses) ELSE 1..FirstBlocking(p)

\* the regular container pass runs
PassRuns(p) == FirstBlocking(p) = 0 \/ InitializedConditionTrue(p)

\* the init container statuses whose restarts are displayed
CountedInit(p) ==
    IF PassRuns(p)
    THEN {i \in Scanned(p) : DeclaredAlways(p, p.InitContainerStatuses[i].Name)}
    ELSE Scanned(p)

\* the regular container statuses whose restarts are displayed
CountedRegular(p) == IF PassRuns(p) THEN 1..Len(p.ContainerStatuses) ELSE {}

RECURSIVE SumRestarts(_, _)
\* the sum of the restart counts of the statuses with an index in S
SumRestarts(statuses, S) ==
    IF S = {} THEN 0
    ELSE LET i == CHOOSE x \in S : TRUE
         IN  statuses[i].RestartCount + SumRestarts(statuses, S \ {i})

\* the latest last-termination time of the statuses with an index in S, 0 if none
LatestTermination(statuses, S) ==
    LET times == {statuses[i].LastTerminationState.FinishedAt :
                     i \in {x \in S : statuses[x].LastTerminationState.set}} \cup {0}
    IN  CHOOSE t \in times : \A u \in times : u <= t

\* the restart count printPod displays
DisplayedRestarts(p) ==
    SumRestarts(p.InitContainerStatuses, CountedInit(p))
    + SumRestarts(p.ContainerStatuses, CountedRegular(p))

\* the last-restart time that goes with it
DisplayedRestartDate(p) ==
    Max(LatestTermination(p.InitContainerStatuses, CountedInit(p)),
        LatestTermination(p.ContainerStatuses, CountedRegular(p)))

\* some container status of the pod carries a last-termination record
SomeLastTermination(p) ==
    \/ \E i \in 1..Len(p.InitContainerStatuses) :
          p.InitContainerStatuses[i].LastTerminationState.set
    \/ \E i \in 1..Len(p.ContainerStatuses) : p.ContainerStatuses[i].LastTerminationState.set

\* C12: the Restarts cell is "<n> (<duration> ago)" exactly when the
\* displayed restart count n is above 0 and a last-restart time is known,
\* and the decimal n otherwise; a count of 0 is the plain "0" even when a
\* container status carries a last-termination record.
C12_RestartsCell ==
    pc = "done" =>
        LET n == DisplayedRestarts(pod)
            date == DisplayedRestartDate(pod)
            ago == Itoa(n) \o " (" \o HumanDuration(now - date) \o " ago)"
        IN  /\ (n > 0 /\ date # 0) => info.Restarts = ago
            /\ ~(n > 0 /\ date # 0) => info.Restarts = Itoa(n)
            /\ info.Restarts = ago <=> (n > 0 /\ date # 0)
            /\ n = 0 => info.Restarts = "0"

C12_Witness ==
    /\ pc = "done"
    /\ SomeLastTermination(pod)
    /\ DisplayedRestartDate(pod) # 0
    /\ DisplayedRestarts(pod) = 0
    /\ info.Restarts = "0"

\* C13 as stated: a step that is an invocation of ListPods or ListJobFlow
\* leaves the process-wide flags as they were.
C13_FlagsUnchanged ==
    [][cmd' \in {"ListPods", "ListJobFlow"} =>
          /\ listPodFlags' = listPodFlags
          /\ listJobFlowFlags' = listJobFlowFlags]_vars

\* C14: for a pod with a deletion timestamp the Status is "Unknown" when
\* the status reason is NodeLost; otherwise it is "Terminating" unless the
\* phase is Succeeded or Failed, and then it is the Status the same pod has
\* without the deletion timestamp. A reason taken from an init or regular
\* container status does not survive the first two cases.
C14_DeletionTimestamp ==
    (pc = "done" /\ pod.DeletionTimestamp) =>
        /\ pod.Reason = "NodeLost" => info.Status = "Unknown"
        /\ (pod.Reason # "NodeLost" /\ pod.Phase \notin {"Succeeded", "Failed"}) =>
              info.Status = "Terminating"
        /\ (pod.Reason # "NodeLost" /\ pod.Phase \in {"Succeeded", "Failed"}) =>
              /\ info.Status = printPod([pod EXCEPT !.DeletionTimestamp = FALSE], now).Status
              /\ info.Status \notin {"Terminating", "Unknown"}

C14_Witness ==
    /\ pc = "done"
    /\ pod.DeletionTimestamp
    /\ pod.Phase = "Succeeded"
    /\ Len(pod.ContainerStatuses) = 1
    /\ pod.ContainerStatuses[1].State.Terminated.Reason = "Completed"
    /\ info.Status = "Completed"

\* the reason the regular pass takes from the i-th regular container status
CandidateReason(p, i) ==
    LET state == p.ContainerStatuses[i].State
    IN  IF state.Waiting.set /\ state.Waiting.Reason # "" THEN state.Waiting.Reason
        ELSE IF state.Terminated.Reason # "" THEN state.Terminated.Reason
        ELSE IF state.Terminated.Signal # 0 THEN "Signal:" \o Itoa(state.Terminated.Signal)
        ELSE "ExitCode:" \o Itoa(state.Terminated.ExitCode)

\* the lowest index of a regular container status that is waiting with a
\* reason or terminated, 0 if there is none
LowestCandidate(p) ==
    LET cands == {i \in 1..Len(p.ContainerStatuses) : HasReasonCandidate(p, i)}
    IN  IF cands = {} THEN 0 ELSE CHOOSE i \in cands : \A j \in cands : i <= j

\* the regular pass ran and the reason it derived is "Completed"
DerivedCompleted(p) ==
    /\ PassRuns(p)
    /\ LowestCandidate(p) # 0
    /\ CandidateReason(p, LowestCandidate(p)) = "Completed"

InitDetail(p, i) ==
    LET state == p.InitContainerStatuses[i].State
    IN  IF state.Terminated.set
        THEN IF state.Terminated.Reason # "" THEN "Init:" \o state.Terminated.Reason
             ELSE IF state.Terminated.Signal # 0
             THEN "Init:Signal:" \o Itoa(state.Terminated.Signal)
             ELSE "Init:ExitCode:" \o Itoa(state.Terminated.ExitCode)
        ELSE IF state.Waiting.set /\ state.Waiting.Reason \notin {"", "PodInitializing"}
        THEN "Init:" \o state.Waiting.Reason
        ELSE "Init:" \o Itoa(i - 1) \o "/" \o Itoa(Len(p.InitContainers))

\* the index of the first init container status that has not terminated
\* with exit code 0, 0 if there is none
FirstNotCompleted(p) ==
    LET open == {i \in 1..Len(p.InitContainerStatuses) : ~InitCompleted(p, i)}
    IN  IF open = {} THEN 0 ELSE CHOOSE i \in open : \A j \in open : i <= j

\* the pod with its init container statuses after the k-th cut off
InitStatusesUpTo(p, k) ==
    [p EXCEPT !.InitContainerStatuses = SubSeq(p.InitContainerStatuses, 1, k)]

\* the Status shows the reason the init scan left: the pod is not being
\* deleted and the regular pass, if it runs, finds no reason of its own
InitReasonShown(p) ==
    ~p.DeletionTimestamp /\ (~PassRuns(p) \/ LowestCandidate(p) = 0)

\* C16 as stated: the init scan stops at the first init container status
\* that has not terminated with exit code 0; the Status is then the
\* "Init:<detail>" of that status and the statuses after it change nothing.
C16_InitScan_AsStated ==
    (pc = "done" /\ FirstNotCompleted(pod) # 0) =>
        /\ (~pod.DeletionTimestamp
            /\ (~InitializedConditionTrue(pod) \/ LowestCandidate(pod) = 0)) =>
              info.Status = InitDetail(pod, FirstNotCompleted(pod))
        /\ info = printPod(InitStatusesUpTo(pod, FirstNotCompleted(pod)), now)

\* C16: the init scan goes front to back, passes the init container
\* statuses that terminated with exit code 0 and those of started
\* restartable (restart policy Always) init containers, and stops at the
\* first other one: the Status is then the "Init:<detail>" of that status
\* and the init container statuses after it change nothing in the row; when
\* no status stops the scan, no "Init:" reason is set.
C16_InitScan ==
    pc = "done" =>
        IF FirstBlocking(pod) # 0
        THEN /\ InitReasonShown(pod) => info.Status = InitDetail(pod, FirstBlocking(pod))
             /\ info = printPod(InitStatusesUpTo(pod, FirstBlocking(pod)), now)
        ELSE InitReasonShown(pod) => info.Status = pod.Phase

C16_Witness ==
    /\ pc = "done"
    /\ Len(pod.InitContainerStatuses) = 2
    /\ InitCompleted(pod, 1)
    /\ pod.InitContainerStatuses[1].RestartCount > 0
    /\ pod.InitContainerStatuses[2].State.Terminated.Signal = 9
    /\ Len(pod.ContainerStatuses) = 2
    /\ info.Status = "Init:Signal:9"

\* the regular container statuses the regular pass counts as ready: Ready
\* and Running, and neither waiting with a reason nor terminated
ReadyRegular(p) ==
    {i \in 1..Len(p.ContainerStatuses) :
        /\ ~HasReasonCandidate(p, i)
        /\ p.ContainerStatuses[i].Ready
        /\ p.ContainerStatuses[i].State.Running}

\* the init container statuses the init scan counts as ready
ReadyInit(p) ==
    {i \in Scanned(p) :
        /\ ~InitCompleted(p, i)
        /\ InitStartedSidecar(p, i)
        /\ p.InitContainerStatuses[i].Ready}

\* C17: when the regular pass runs, the reason it leaves is the one of the
\* lowest-index regular container status that is waiting with a reason or
\* terminated (waiting reason, else terminated reason, else "Signal:<s>" or
\* "ExitCode:<c>"), whatever the statuses after it are; it is the Status
\* unless the deletion step or the Completed post-process replaces it. Every
\* status that gives no reason and is Ready and Running adds one to the
\* ready count, and no other regular status does.
C17_RegularPass ==
    (pc = "done" /\ PassRuns(pod)) =>
        /\ (/\ LowestCandidate(pod) # 0
            /\ ~pod.DeletionTimestamp
            /\ ~(DerivedCompleted(pod) /\ ReadyRegular(pod) # {}))
           => info.Status = CandidateReason(pod, LowestCandidate(pod))
        /\ info.ReadyContainers
             \in ReadyCells(pod, Cardinality(ReadyInit(pod)) + Cardinality(ReadyRegular(pod)))

C17_Witness ==
    /\ pc = "done"
    /\ PassRuns(pod)
    /\ ~pod.DeletionTimestamp
    /\ Len(pod.ContainerStatuses) = 2
    /\ pod.ContainerStatuses[1].State.Terminated.Signal = 9
    /\ pod.ContainerStatuses[2].State.Waiting.Reason = "CrashLoopBackOff"
    /\ info.Status = "Signal:9"

\* the pod without its regular container statuses
WithoutContainerStatuses(p) == [p EXCEPT !.ContainerStatuses = <<>>]

\* C18: the regular pass runs if and only if no init container status
\* stopped the init scan or the Initialized condition is true. When it runs
\* the regular statuses that are Ready and Running are in the ready count;
\* when it does not, the row is the one of the pod without its regular
\* container statuses: the Status is the "Init:" reason of the stopping
\* status ("Terminating" for a pod being deleted in a non-terminal phase),
\* the ready count is the one of the init scan, and the restart count is the
\* sum over the init container statuses the scan looked at.
C18_PassGuard ==
    pc = "done" =>
        IF FirstBlocking(pod) = 0 \/ InitializedConditionTrue(pod)
        THEN info.ReadyContainers
               \in ReadyCells(pod, Cardinality(ReadyInit(pod))
                                   + Cardinality(ReadyRegular(pod)))
        ELSE /\ info = printPod(WithoutContainerStatuses(pod), now)
             /\ ~pod.DeletionTimestamp =>
                   info.Status = InitDetail(pod, FirstBlocking(pod))
             /\ (pod.DeletionTimestamp /\ pod.Phase = "Running" /\ pod.Reason = "") =>
                   info.Status = "Terminating"
             /\ info.ReadyContainers \in ReadyCells(pod, Cardinality(ReadyInit(pod)))
             /\ LET n == SumRestarts(pod.InitContainerStatuses, Scanned(pod))
                    date == LatestTermination(pod.InitContainerStatuses, Scanned(pod))
                IN  info.Restarts \in
                      {Itoa(n),
                       Itoa(n) \o " (" \o HumanDuration(now - date) \o " ago)"}

C18_Witness ==
    /\ pc = "done"
    /\ FirstBlocking(pod) = 1
    /\ ~InitializedConditionTrue(pod)
    /\ ~pod.DeletionTimestamp
    /\ Len(pod.ContainerStatuses) = 2
    /\ ReadyRegular(pod) # {}
    /\ pod.ContainerStatuses[2].State.Waiting.Reason = "CrashLoopBackOff"
    /\ pod.ContainerStatuses[2].RestartCount > 0
    /\ pod.InitContainerStatuses[1].RestartCount = 2
    /\ info.Status = "Init:Error"
    /\ info.Restarts = "2 (5m ago)"

\* the scanned init container statuses of restartable init containers
ScannedRestartable(p) ==
    {i \in Scanned(p) : DeclaredAlways(p, p.InitContainerStatuses[i].Name)}

\* C19: when the regular pass runs, the restart count of the Restarts cell
\* is the sum of the restart counts of all regular container statuses and
\* of the scanned statuses of restartable (restart policy Always) init
\* containers, the counts of the other init containers being dropped, and
\* the time of the "ago" part is the latest last termination among those
\* same statuses; when the pass does not run, count and time are taken over
\* the init container statuses up to and including the one that stopped the
\* scan.
C19_RestartCount ==
    pc = "done" =>
        LET regular == 1..Len(pod.ContainerStatuses)
            count == IF PassRuns(pod)
                     THEN SumRestarts(pod.ContainerStatuses, regular)
                          + SumRestarts(pod.InitContainerStatuses, ScannedRestartable(pod))
                     ELSE SumRestarts(pod.InitContainerStatuses, 1..FirstBlocking(pod))
            date == IF PassRuns(pod)
                    THEN Max(LatestTermination(pod.ContainerStatuses, regular),
                             LatestTermination(pod.InitContainerStatuses,
                                               ScannedRestartable(pod)))
                    ELSE LatestTermination(pod.InitContainerStatuses,
                                           1..FirstBlocking(pod))
        IN  info.Restarts =
              IF count > 0 /\ date # 0
              THEN Itoa(count) \o " (" \o HumanDuration(now - date) \o " ago)"
              ELSE Itoa(count)

C19_Witness ==
    /\ pc = "done"
    /\ PassRuns(pod)
    /\ Len(pod.InitContainerStatuses) = 2
    /\ InitCompleted(pod, 1)
    /\ ~DeclaredAlways(pod, "init-1")
    /\ pod.InitContainerStatuses[1].RestartCount = 1
    /\ InitStartedSidecar(pod, 2)
    /\ pod.InitContainerStatuses[2].RestartCount = 1
    /\ Len(pod.ContainerStatuses) = 2
    /\ pod.ContainerStatuses[1].RestartCount = 3
    /\ pod.ContainerStatuses[2].RestartCount = 0
    /\ info.Restarts = "4 (3m20s ago)"

\* the init container status of index i names a declared init container
DeclaredInit(p, i) ==
    \E j \in 1..Len(p.InitContainers) :
        p.InitContainers[j].Name = p.InitContainerStatuses[i].Name

\* every init and regular container status is the status of a declared
\* container of its kind, and no two statuses are of the same container
Corresponds(p) ==
    /\ \A i \in 1..Len(p.InitContainerStatuses) : DeclaredInit(p, i)
    /\ \A i, k \in 1..Len(p.InitContainerStatuses) :
          i # k => p.InitContainerStatuses[i].Name # p.InitContainerStatuses[k].Name
    /\ \A i \in 1..Len(p.ContainerStatuses) :
          \E j \in 1..Len(p.Containers) : p.Containers[j] = p.ContainerStatuses[i].Name
    /\ \A i, k \in 1..Len(p.ContainerStatuses) :
          i # k => p.ContainerStatuses[i].Name # p.ContainerStatuses[k].Name

\* the total of the Ready cell: the declared containers and the declared
\* init containers of restart policy Always
DeclaredTotal(p) ==
    Len(p.Containers)
    + Cardinality({j \in 1..Len(p.InitContainers) :
                     p.InitContainers[j].RestartPolicy = "Always"})

\* the Ready cells "<r>/<total>" with r from 0 to most
ReadyCellsUpTo(p, most) ==
    {Itoa(r) \o "/" \o Itoa(DeclaredTotal(p)) : r \in 0..most}

\* the init container statuses that can count as ready: started and Ready,
\* of a declared init container of restart policy Always
CountableInit(p) ==
    {i \in 1..Len(p.InitContainerStatuses) :
        /\ DeclaredAlways(p, p.InitContainerStatuses[i].Name)
        /\ p.InitContainerStatuses[i].Started = "true"
        /\ p.InitContainerStatuses[i].Ready}

\* the regular container statuses that can count as ready
CountableRegular(p) ==
    {i \in 1..Len(p.ContainerStatuses) :
        p.ContainerStatuses[i].Ready /\ p.ContainerStatuses[i].State.Running}

\* C20: the Ready cell is "<ready>/<total>" with 0 <= ready <= total for
\* every pod whose init and regular container statuses are each the status
\* of a distinct declared container. For every pod, ready is at most the
\* number of started and Ready statuses of declared restartable init
\* containers plus the number of Ready and Running regular statuses: no
\* status counts twice, and an init container status whose name is not
\* declared never counts.
C20_ReadyWithinTotal ==
    pc = "done" =>
        /\ Corresponds(pod) =>
              info.ReadyContainers \in ReadyCellsUpTo(pod, DeclaredTotal(pod))
        /\ info.ReadyContainers
             \in ReadyCellsUpTo(pod, Cardinality(CountableInit(pod))
                                     + Cardinality(CountableRegular(pod)))

C20_Witness ==
    /\ pc = "done"
    /\ Corresponds(pod)
    /\ Len(pod.InitContainerStatuses) = 2
    /\ Cardinality(CountableInit(pod)) = 1
    /\ Cardinality(CountableRegular(pod)) = 2
    /\ info.ReadyContainers = "3/3"

\* a started and Ready init container status of a name that is not declared
\* is in the pod and the Ready cell counts nothing
C20_Witness_NotDeclared ==
    /\ pc = "done"
    /\ Len(pod.InitContainerStatuses) = 1
    /\ ~DeclaredInit(pod, 1)
    /\ pod.InitContainerStatuses[1].Started = "true"
    /\ pod.InitContainerStatuses[1].Ready
    /\ info.ReadyContainers = "0/2"

=============================================================================
